---- MODULE Spec2Model ----
(***************************************************************************)
(* A model of the kernel-search log visualiser:                            *)
(*   src/visualize_log_run.py  the expression parser (parse_kernel_expr),   *)
(*                             the log parser (parse_log) and the per-round *)
(*                             timeline (visualize_log_run);                *)
(*   src/kernel_viz.py         the path addressing of the renderers         *)
(*                             (_is_binary, _build_graph,                   *)
(*                             _add_kernel_to_graph and the renderers).     *)
(*                                                                         *)
(* Text is a sequence of one-character strings; a Python offset i (from 0) *)
(* reads s[i+1].  An optional value (None or a value) is a sequence of      *)
(* length 0 or 1.  A call that can raise returns a record whose field exc   *)
(* names the exception ("" when it returned).                              *)
(***************************************************************************)
EXTENDS Integers, Sequences, FiniteSets, TLC

VARIABLES
    pc,             \* position of the running program
    exc,            \* the exception that ended the program ("" when none)
    input,          \* SpecParse: the argument of parse_kernel_expr
    node,           \* SpecParse: its result (an optional KernelNode)
    text,           \* SpecParse: pretty() of the result
    node2,          \* SpecParse: parse_kernel_expr(text)
    log,            \* the lines of the log file (SpecLog: those read so far)
    rounds,         \* parse_log: the Rounds closed so far; then its result
    current,        \* parse_log: the open Round (optional)
    step,           \* parse_log: the current step (optional), the offset in
                    \* current["steps"] of the dict the name step refers to
    r_idx,          \* visualize_log_run: the number of the Round in progress
    steps_sorted,   \* visualize_log_run: the Round's steps, sorted
    k,              \* visualize_log_run: how many of them are processed
    y_limits,       \* visualize_log_run: the score axis of the Round
    chain_kernels,  \* visualize_log_run: the chain's kernels
    chain_scores,   \* visualize_log_run: the chain's scores
    frame_scores,   \* visualize_log_run: the scores of the steps processed
    mutation_paths, \* visualize_log_run: the mutation images of the Round
    requests        \* the calls made to the renderers, in order

parseVars == <<input, node, text, node2>>

logVars == <<log, rounds, current, step>>

vizVars == <<r_idx, steps_sorted, k, y_limits, chain_kernels, chain_scores,
             frame_scores, mutation_paths, requests>>

vars == <<pc, exc, parseVars, logVars, vizVars>>

\* ------------------------------------------------------------------ bounds
\* The longest expression string parse_kernel_expr is given.
MaxLen == 5

\* ------------------------------------------------------------------- text
\* The characters str.isspace(), str.strip() and \s take as whitespace.
Whitespace == {" ", "\t", "\n", "\r"}

None == <<>>

Some(v) == <<v>>

\* s[i] of Python, 0 <= i < len(s).
At(s, i) == s[i + 1]

\* s[a:b] of Python, 0 <= a, b <= len(s).
Slice(s, a, b) == IF a >= b THEN <<>> ELSE SubSeq(s, a + 1, b)

\* str.isspace() on one character.
IsSpace(c) == c \in Whitespace

RECURSIVE LStrip(_)
LStrip(s) ==
    IF s # <<>> /\ IsSpace(Head(s)) THEN LStrip(Tail(s)) ELSE s

RECURSIVE RStrip(_)
RStrip(s) ==
    IF s # <<>> /\ IsSpace(s[Len(s)]) THEN RStrip(SubSeq(s, 1, Len(s) - 1)) ELSE s

\* str.strip(): leading and trailing whitespace removed.
Strip(s) == RStrip(LStrip(s))

\* s.replace(cc, "") for a two-character pattern cc = c c: the occurrences are
\* found left to right and do not overlap.
RECURSIVE RemoveDouble(_, _)
RemoveDouble(s, c) ==
    IF Len(s) < 2 THEN s
    ELSE IF s[1] = c /\ s[2] = c THEN RemoveDouble(SubSeq(s, 3, Len(s)), c)
    ELSE <<s[1]>> \o RemoveDouble(Tail(s), c)

\* s.startswith(p)
StartsWith(s, p) == Len(s) >= Len(p) /\ SubSeq(s, 1, Len(p)) = p

\* --------------------------------------------------------- the expression
\* The dataclass KernelNode: four optional fields, all None by default.
KernelNode(name, op, left, right) ==
    [name |-> name, op |-> op, left |-> left, right |-> right]

Leaf(name) == KernelNode(Some(name), None, None, None)

\* What a call returned: a node and the offset reached, or an exception.
Ret(n, i) == [exc |-> "", node |-> Some(n), i |-> i]

Raise(e) == [exc |-> e, node |-> None, i |-> 0]

\* pretty() writing the operator before its operands.
RECURSIVE pretty_prefix(_)
pretty_prefix(n) ==
    IF n.op # None /\ n.left # None /\ n.right # None
    THEN <<"(">> \o n.op[1] \o <<" ">> \o pretty_prefix(n.left[1]) \o <<" ">>
         \o pretty_prefix(n.right[1]) \o <<")">>
    ELSE IF n.name # None /\ n.name[1] # <<>> THEN n.name[1] ELSE <<"?">>

\* KernelNode.pretty
RECURSIVE pretty(_)
pretty(n) ==
    IF n.op # None /\ n.left # None /\ n.right # None
    THEN <<"(">> \o pretty(n.left[1]) \o <<" ">> \o n.op[1] \o <<" ">>
         \o pretty(n.right[1]) \o <<")">>
    ELSE IF n.name # None /\ n.name[1] # <<>> THEN n.name[1] ELSE <<"?">>

_strip_highlight(s) == Strip(RemoveDouble(RemoveDouble(s, "["), "]"))

RECURSIVE _skip_ws(_, _)
_skip_ws(s, i) ==
    IF i < Len(s) /\ IsSpace(At(s, i)) THEN _skip_ws(s, i + 1) ELSE i

\* The first loop of _parse_base: up to a delimiter or an opening paren.
RECURSIVE ScanName(_, _)
ScanName(s, i) ==
    IF i < Len(s) /\ At(s, i) \notin {" ", ")", "+", "*"} /\ At(s, i) # "("
    THEN ScanName(s, i + 1)
    ELSE i

\* The second loop of _parse_base: from an opening paren to the paren that
\* closes it, or to the end of the input.
RECURSIVE ScanParen(_, _, _)
ScanParen(s, i, depth) ==
    IF i >= Len(s) THEN i
    ELSE IF At(s, i) = "(" THEN ScanParen(s, i + 1, depth + 1)
    ELSE IF At(s, i) = ")"
         THEN IF depth - 1 = 0 THEN i + 1 ELSE ScanParen(s, i + 1, depth - 1)
    ELSE ScanParen(s, i + 1, depth)

_parse_base(s, start) ==
    LET i1 == ScanName(s, start)
        i  == IF i1 < Len(s) /\ At(s, i1) = "(" THEN ScanParen(s, i1, 0) ELSE i1
        token == Strip(Slice(s, start, i))
    IN  IF token = <<>>
        THEN Ret(Leaf(<<"X">>), IF i + 1 < Len(s) THEN i + 1 ELSE Len(s))
        ELSE Ret(Leaf(token), i)

RECURSIVE _parse_expr(_, _)
_parse_expr(s, i0) ==
    LET i == _skip_ws(s, i0) IN
    IF i >= Len(s) THEN Ret(Leaf(<<"?">>), i)
    ELSE IF At(s, i) = "("
    THEN LET l == _parse_expr(s, i + 1) IN
         IF l.exc # "" THEN l
         ELSE LET j == _skip_ws(s, l.i) IN
              \* op = s[i]: an offset past the end is an IndexError
              IF j >= Len(s) THEN Raise("IndexError")
              ELSE LET r == _parse_expr(s, j + 1) IN
                   IF r.exc # "" THEN r
                   ELSE LET e == _skip_ws(s, r.i) IN
                        Ret(KernelNode(None, Some(<<At(s, j)>>), l.node, r.node),
                            IF e < Len(s) /\ At(s, e) = ")" THEN e + 1 ELSE e)
    ELSE _parse_base(s, i)

\* parse_kernel_expr without the call of _strip_highlight.
parse_kernel_expr_unstripped(s) == _parse_expr(s, 0)

parse_kernel_expr(s) == _parse_expr(_strip_highlight(s), 0)

\* ----------------------------------------------------------------- the log
Digits == {"0", "1", "2", "3", "4", "5", "6", "7", "8", "9"}

\* The prefixes and words of the log's lines.
T_Init == <<"I", "n", "i", "t", ":", " ">>

T_Step == <<"S", "t", "e", "p">>

T_accept == <<"a", "c", "c", "e", "p", "t">>

T_reject == <<"r", "e", "j", "e", "c", "t">>

T_log_alpha == <<"l", "o", "g", "_", "a", "l", "p", "h", "a", "=">>

T_Sever == <<"S", "e", "v", "e", "r", " ", "p", "a", "t", "h", ":", " ">>

T_Before == <<"B", "e", "f", "o", "r", "e", ":", " ">>

T_After == <<"A", "f", "t", "e", "r", " ", ":", " ">>

T_root == <<"r", "o", "o", "t">>

\* The offset after the longest run, from offset i, of characters of S: what a
\* greedy \s+, \d+ or [-\d\.]+ of step_re takes.
RECURSIVE SpanOf(_, _, _)
SpanOf(s, i, S) ==
    IF i < Len(s) /\ At(s, i) \in S THEN SpanOf(s, i + 1, S) ELSE i

\* Whether s holds the text p at offset i.
HasAt(s, i, p) == i + Len(p) <= Len(s) /\ Slice(s, i, i + Len(p)) = p

DigitValue(c) ==
    CASE c = "0" -> 0 [] c = "1" -> 1 [] c = "2" -> 2 [] c = "3" -> 3
      [] c = "4" -> 4 [] c = "5" -> 5 [] c = "6" -> 6 [] c = "7" -> 7
      [] c = "8" -> 8 [] c = "9" -> 9

\* int(t) of a text of digits.
RECURSIVE int(_)
int(t) ==
    IF t = <<>> THEN 0
    ELSE 10 * int(SubSeq(t, 1, Len(t) - 1)) + DigitValue(t[Len(t)])

\* float(t) of a text of the characters - . and digits, as step_re passes it:
\* an optional sign, digits, an optional point and digits, with one digit at
\* least; anything else is a ValueError.  The value is kept in units of
\* 1/10000 (four decimals; the logs modelled write three at most).
float(t) ==
    LET neg  == t # <<>> /\ t[1] = "-"
        body == IF neg THEN Tail(t) ELSE t
        ie   == SpanOf(body, 0, Digits)
        fs   == IF ie < Len(body) /\ At(body, ie) = "." THEN ie + 1 ELSE ie
        fe   == SpanOf(body, fs, Digits)
        frac == Slice(body, fs, IF fe < fs + 4 THEN fe ELSE fs + 4)
        pad  == [j \in 1..(4 - Len(frac)) |-> "0"]
        mag  == 10000 * int(Slice(body, 0, ie)) + int(frac \o pad)
    IN  IF fe = Len(body) /\ (ie > 0 \/ fe > fs)
        THEN [exc |-> "", val |-> IF neg THEN 0 - mag ELSE mag]
        ELSE [exc |-> "ValueError", val |-> 0]

\* step_re.match(line), with
\* step_re = Step\s+(\d+)\s+\|\s+(accept|reject)\s+\|\s+log_alpha=([-\d\.]+):
\* whether the line starts with a match, and the three groups.
step_re_match(line) ==
    LET a  == Len(T_Step)
        b  == SpanOf(line, a, Whitespace)
        c  == SpanOf(line, b, Digits)
        d  == SpanOf(line, c, Whitespace)
        e  == SpanOf(line, d + 1, Whitespace)
        st == IF HasAt(line, e, T_accept) THEN T_accept
              ELSE IF HasAt(line, e, T_reject) THEN T_reject ELSE <<>>
        f  == e + Len(st)
        g  == SpanOf(line, f, Whitespace)
        h  == SpanOf(line, g + 1, Whitespace)
        m  == h + Len(T_log_alpha)
        n  == SpanOf(line, m, Digits \cup {"-", "."})
        ok == /\ HasAt(line, 0, T_Step)
              /\ b > a /\ c > b /\ d > c
              /\ HasAt(line, d, <<"|">>) /\ e > d + 1
              /\ st # <<>> /\ g > f
              /\ HasAt(line, g, <<"|">>) /\ h > g + 1
              /\ HasAt(line, h, T_log_alpha) /\ n > m
    IN  IF ok
        THEN [matched |-> TRUE, idx |-> Slice(line, b, c), status |-> st,
              log_alpha |-> Slice(line, m, n)]
        ELSE [matched |-> FALSE, idx |-> <<>>, status |-> <<>>, log_alpha |-> <<>>]

\* The state of parse_log's loop: rounds, current, step, and the exception
\* that ended it.
LogState(rs, cur, stp, e) == [rounds |-> rs, current |-> cur, step |-> stp, exc |-> e]

\* step[key] = value on the dict the name step refers to, which is an entry of
\* current["steps"]; step = None makes the assignment a TypeError.
SetStepKey(st, key, value) ==
    IF st.step = None THEN [st EXCEPT !.exc = "TypeError"]
    ELSE [st EXCEPT !.current[1].steps[st.step[1]] = [@ EXCEPT ![key] = Some(value)]]

\* One pass of the loop of parse_log on the line raw.
ParseLine(st, raw) ==
    LET line == Strip(raw)
        m    == step_re_match(line)
        v    == float(m.log_alpha)
    IN  IF line = <<>> THEN st
        ELSE IF StartsWith(line, T_Init)
        THEN LogState(IF st.current # None THEN Append(st.rounds, st.current[1])
                      ELSE st.rounds,
                      Some([init |-> Slice(line, Len(T_Init), Len(line)),
                            steps |-> <<>>]),
                      None, "")
        ELSE IF m.matched
        THEN IF v.exc # "" THEN [st EXCEPT !.exc = v.exc]
             \* current["steps"] with current = None
             ELSE IF st.current = None THEN [st EXCEPT !.exc = "TypeError"]
             ELSE [st EXCEPT
                     !.current[1].steps =
                         Append(@, [idx |-> int(m.idx), status |-> m.status,
                                    log_alpha |-> v.val, sever_path |-> None,
                                    before |-> None, after |-> None]),
                     !.step = Some(Len(st.current[1].steps) + 1)]
        ELSE IF StartsWith(line, T_Sever)
        THEN SetStepKey(st, "sever_path", Strip(Slice(line, Len(T_Sever), Len(line))))
        ELSE IF StartsWith(line, T_Before)
        THEN SetStepKey(st, "before", Strip(Slice(line, Len(T_Before), Len(line))))
        ELSE IF StartsWith(line, T_After)
        THEN SetStepKey(st, "after", Strip(Slice(line, Len(T_After), Len(line))))
        ELSE st

\* The end of parse_log: the open Round, if any, is appended.
ParseEnd(st) ==
    IF st.current # None THEN Append(st.rounds, st.current[1]) ELSE st.rounds

\* The loop of parse_log over the lines from offset i on, up to the end of the
\* file or the first exception.
RECURSIVE ParseLines(_, _, _)
ParseLines(st, lines, i) ==
    IF i >= Len(lines) \/ st.exc # "" THEN st
    ELSE ParseLines(ParseLine(st, At(lines, i)), lines, i + 1)

\* parse_log on a file of these lines.
parse_log(lines) ==
    LET st == ParseLines(LogState(<<>>, None, None, ""), lines, 0)
    IN  [exc |-> st.exc, rounds |-> IF st.exc = "" THEN ParseEnd(st) ELSE <<>>]

\* ------------------------------------------------- the unused variables
\* The variables a specification does not use keep these values.
ParseIdle == input = <<>> /\ node = None /\ text = <<>> /\ node2 = None

LogIdle == log = <<>> /\ rounds = <<>> /\ current = None /\ step = None

VizIdle ==
    /\ r_idx = 0
    /\ steps_sorted = <<>>
    /\ k = 0
    /\ y_limits = <<0, 0>>
    /\ chain_kernels = <<>>
    /\ chain_scores = <<>>
    /\ frame_scores = <<>>
    /\ mutation_paths = <<>>
    /\ requests = <<>>

\* --------------------------------------------------------------- SpecParse
\* The characters of the expression strings tried.
Alphabet == {"(", ")", "+", " ", "A", "[", "]"}

RECURSIVE StringsUpTo(_)
StringsUpTo(n) ==
    IF n = 0 THEN {<<>>}
    ELSE LET S == StringsUpTo(n - 1) IN
         S \cup {Append(t, c) : t \in {u \in S : Len(u) = n - 1}, c \in Alphabet}

\* Expressions as the search writes them, longer than MaxLen.
Samples ==
    { <<"(", "R", "B", "F", "1", " ", "+", " ", "P", "E", "R", "2", ")">>,
      <<"(", "(", "A", " ", "+", " ", "B", ")", " ", "*", " ", "R", "B", "F", "(", "i", "d", "=", "3", ")", ")">>,
      <<"[", "[", "(", "A", " ", "+", " ", "(", "B", " ", "*", " ", "C", ")", ")", "]", "]">>,
      <<"(", "A", " ", "*", " ", "R", "B", "F", "(", "i", "d", "=", "3">> }

InitParse ==
    /\ pc = "call"
    /\ input \in StringsUpTo(MaxLen) \cup Samples
    /\ node = None
    /\ text = <<>>
    /\ node2 = None
    /\ exc = ""
    /\ LogIdle
    /\ VizIdle

\* node = parse_kernel_expr(input)
ParseKernelExpr ==
    /\ pc = "call"
    /\ LET r == parse_kernel_expr(input) IN
       /\ node' = r.node
       /\ exc' = r.exc
       /\ pc' = IF r.exc = "" THEN "parsed" ELSE "raised"
    /\ UNCHANGED <<input, text, node2, logVars, vizVars>>

\* text = node.pretty(); node2 = parse_kernel_expr(text)
PrettyAndReparse ==
    /\ pc = "parsed"
    /\ LET t == pretty(node[1])
           r == parse_kernel_expr(t) IN
       /\ text' = t
       /\ node2' = r.node
       /\ exc' = r.exc
       /\ pc' = IF r.exc = "" THEN "reparsed" ELSE "raised"
    /\ UNCHANGED <<input, node, logVars, vizVars>>

NextParse == ParseKernelExpr \/ PrettyAndReparse

SpecParse == InitParse /\ [][NextParse]_vars

\* ------------------------------------------- the claims on SpecParse
\* The names of the leaves of a tree.
RECURSIVE LeafNames(_)
LeafNames(n) ==
    IF n.op # None
    THEN LeafNames(n.left[1]) \cup LeafNames(n.right[1])
    ELSE {n.name[1]}

IsPlaceholder(name) == name \in {<<"X">>, <<"?">>}

NoPlaceholder(n) == \A name \in LeafNames(n) : ~IsPlaceholder(name)

Count(s, c) == Cardinality({i \in 1..Len(s) : s[i] = c})

\* A name with an opening paren that the end of the input cut off.
Unclosed(name) == Count(name, "(") # Count(name, ")")

\* A name that holds the highlight marker [[.
HasMarker(name) == \E i \in 1..(Len(name) - 1) : name[i] = "[" /\ name[i + 1] = "["

\* pretty() and the second parse have run.
Reparsed == pc \in {"reparsed", "raised"} /\ text # <<>>

\* C1: parse_kernel_expr never fails: for every input string it returns an
\* expression tree and never raises an error.
C1_NeverFails == pc # "call" => (exc = "" /\ node # None)

\* C6, as claimed: for every tree parse_kernel_expr produces that holds no
\* "X"/"?" leaf, parsing its pretty() text yields the same tree.
C6_RoundTrip ==
    (Reparsed /\ NoPlaceholder(node[1])) => (exc = "" /\ node2 = node)

\* The trees C6 holds for: no leaf name holds the marker [[, and a leaf below
\* an operator has no unclosed paren.
RoundTrips(n) ==
    /\ \A name \in LeafNames(n) : ~HasMarker(name)
    /\ n.op # None => \A name \in LeafNames(n) : ~Unclosed(name)

\* C6, amended: for every tree parse_kernel_expr produces that holds no
\* "X"/"?" leaf, no leaf name with the marker [[ and, below an operator, no
\* leaf name with an unclosed paren, parsing its pretty() text yields the
\* same tree (same shape, leaf names and operators).
C6_RoundTripClosed ==
    (Reparsed /\ NoPlaceholder(node[1]) /\ RoundTrips(node[1]))
        => (exc = "" /\ node2 = node)

\* C6: an operator node over a leaf with a parenthesized detail came back the
\* same from its pretty() text.
C6_Witness ==
    /\ pc = "reparsed"
    /\ node[1].op # None
    /\ NoPlaceholder(node[1])
    /\ RoundTrips(node[1])
    /\ \E name \in LeafNames(node[1]) : Count(name, "(") > 0
    /\ node2 = node

\* The input is empty once the markers and the whitespace around are stripped.
EmptyOnceStripped == Strip(RemoveDouble(RemoveDouble(input, "["), "]")) = <<>>

\* C10, as claimed: an input that is empty once stripped parses to the single
\* placeholder leaf "X".
C10_EmptyIsX ==
    (pc = "parsed" /\ EmptyOnceStripped) => node = Some(Leaf(<<"X">>))

\* C10, amended: an input that is empty once its highlight markers and the
\* whitespace around are stripped parses to the single placeholder leaf "?".
C10_EmptyIsQuestionMark ==
    (pc # "call" /\ EmptyOnceStripped) => (exc = "" /\ node = Some(Leaf(<<"?">>)))

\* C10: an input of markers and whitespace was parsed to the leaf "?".
C10_Witness ==
    /\ pc = "parsed"
    /\ Len(input) >= 4
    /\ EmptyOnceStripped
    /\ node = Some(Leaf(<<"?">>))

\* ----------------------------------------------------------------- SpecLog
\* parse_log read one line at a time: the file is whatever the lines read so
\* far are, and it may end after any of them.

\* The most lines a log read by SpecLog holds.
MaxLines == 4

\* "Step <idx> | <status> | log_alpha=<score>", as the search writes it.
StepLine(idx, status, score) ==
    T_Step \o <<" ">> \o idx \o <<" ", "|", " ">> \o status \o <<" ", "|", " ">>
    \o T_log_alpha \o score

\* The lines SpecLog reads: every shape of parse_log's table, the malformed
\* ones included.
LogLines ==
    { <<>>,                                         \* a blank line
      <<"#", " ", "n", "o", "t", "e">>,                                     \* no recognized prefix
      <<"I", "n", "i", "t", ":">>,                                      \* no expression: no "Init: "
      <<"I", "n", "i", "t", ":", " ", "A">>,
      <<" ", " ", "I", "n", "i", "t", ":", " ", "(", "A", " ", "+", " ", "B", ")">>,                            \* indented
      StepLine(<<"1">>, T_accept, <<"1", ".", "5">>),
      StepLine(<<"0">>, T_reject, <<"-", "0", ".", "5", "1", "2">>),
      StepLine(<<"2">>, T_accept, <<"1", ".", "2", ".", "3">>),         \* not a number
      StepLine(<<"2">>, T_reject, <<"-">>),         \* not a number
      StepLine(<<"x">>, T_accept, <<"1">>),         \* no match of step_re
      <<"S", "e", "v", "e", "r", " ", "p", "a", "t", "h", ":", " ", "L">>,
      <<"B", "e", "f", "o", "r", "e", ":", " ", "A">>,
      <<"A", "f", "t", "e", "r", " ", ":", " ", "B">> }

InitLog ==
    /\ pc = "reading"
    /\ exc = ""
    /\ LogIdle
    /\ ParseIdle
    /\ VizIdle

\* for raw in f: one pass of the loop (lines 93-120).
ReadLine ==
    /\ pc = "reading"
    /\ Len(log) < MaxLines
    /\ \E raw \in LogLines :
          LET st == ParseLine(LogState(rounds, current, step, ""), raw) IN
          /\ log' = Append(log, raw)
          /\ rounds' = st.rounds
          /\ current' = st.current
          /\ step' = st.step
          /\ exc' = st.exc
          /\ pc' = IF st.exc = "" THEN "reading" ELSE "raised"
    /\ UNCHANGED <<parseVars, vizVars>>

\* The end of the file: lines 122-124.
EndOfInput ==
    /\ pc = "reading"
    /\ rounds' = ParseEnd(LogState(rounds, current, step, ""))
    /\ pc' = "returned"
    /\ UNCHANGED <<exc, log, current, step, parseVars, vizVars>>

NextLog == ReadLine \/ EndOfInput

SpecLog == InitLog /\ [][NextLog]_vars

\* --------------------------------------------- the claims on SpecLog
\* parse_log has ended, by returning or by raising.
LogEnded == pc \in {"returned", "raised"}

\* An "Init: <expr>" line.
IsInitLine(raw) == StartsWith(Strip(raw), T_Init)

\* A well-formed Step header: the shape of step_re with a number as log_alpha.
IsStepHeader(raw) ==
    /\ ~IsInitLine(raw)
    /\ step_re_match(Strip(raw)).matched
    /\ float(step_re_match(Strip(raw)).log_alpha).exc = ""

\* The offsets in lines of its Init lines.
InitOffsets(lines) == {i \in 1..Len(lines) : IsInitLine(lines[i])}

\* The offset of the n-th Init line, and of the line that ends its Round.
NthInit(lines, n) ==
    CHOOSE i \in InitOffsets(lines) :
        Cardinality({j \in InitOffsets(lines) : j <= i}) = n

RoundEnd(lines, n) ==
    IF n < Cardinality(InitOffsets(lines)) THEN NthInit(lines, n + 1)
    ELSE Len(lines) + 1

HeadersOfRound(lines, n) ==
    Cardinality({i \in (NthInit(lines, n) + 1)..(RoundEnd(lines, n) - 1) :
                    IsStepHeader(lines[i])})

RoundCounts ==
    /\ Len(rounds) = Cardinality(InitOffsets(log))
    /\ \A n \in 1..Len(rounds) : Len(rounds[n].steps) = HeadersOfRound(log, n)

\* C2: parse_log never raises: whatever the lines, a line of no recognized
\* shape, a Step header before any Init line, a Sever path/Before/After line
\* with no current step and a Step header whose log_alpha is no number are
\* skipped or recorded locally, and parse_log returns the list of Rounds.
C2_NeverRaises == LogEnded => (pc = "returned" /\ exc = "")

\* C3: for all logs parse_log emits as many Rounds as there are Init lines,
\* each with as many steps as there are well-formed Step headers between its
\* Init line and the next (or the end of the input); none for no Init line.
C3_RoundCounts == LogEnded => (pc = "returned" /\ RoundCounts)

\* The counts of C3 on the logs on which parse_log returns.
ReturnedRoundCounts == pc = "returned" => RoundCounts

\* ------------------------------------------------ kernel_viz: the paths
\* _is_binary(node): hasattr(node, "left") and hasattr(node, "right").  The
\* node is optional here: the children of a leaf KernelNode are None, and
\* None has no attribute.
_is_binary(n) == n # None /\ {"left", "right"} \subseteq DOMAIN n[1]

\* rec of _build_graph and of _add_kernel_to_graph: the paths of the nodes it
\* adds to the graph, in the order of their node_id (0, 1, ...).
RECURSIVE rec(_, _)
rec(n, path) ==
    <<path>> \o (IF _is_binary(n)
                 THEN rec(n[1].left, Append(path, "L"))
                      \o rec(n[1].right, Append(path, "R"))
                 ELSE <<>>)

\* paths of _build_graph(node)
_build_graph(n) == rec(Some(n), <<>>)

\* paths of _add_kernel_to_graph(graph, node, prefix, ...)
_add_kernel_to_graph(n) == rec(Some(n), <<>>)

\* The node_ids of the nodes filled with the highlight colour: those whose
\* path is a key of the highlight map (here the one path hl, when given).
Highlighted(paths, hl) ==
    IF hl = None THEN {}
    ELSE {id \in 0..(Len(paths) - 1) : At(paths, id) = hl[1]}

\* next((k for k, v in paths.items() if v == sever_path), None)
FirstWithPath(paths, p) ==
    LET ids == {id \in 0..(Len(paths) - 1) : At(paths, id) = p}
    IN  IF ids = {} THEN None
        ELSE Some(CHOOSE id \in ids : \A other \in ids : id <= other)

\* render_kernel_graph(kernel, highlight_paths={hl: colour}, score=..., ...):
\* the request as the renderer sees it, what/round/idx standing for its title
\* and save_path.
render_kernel_graph(what, r, idx, kernel, hl, score) ==
    [kind |-> "graph", what |-> what, round |-> r, idx |-> idx,
     kernel |-> kernel, highlight_paths |-> hl, score |-> score,
     highlighted |-> Highlighted(_build_graph(kernel), hl)]

\* render_kernel_mutation(before, after, sever_path=..., score=..., ...):
\* edge is the dashed edge between the two nodes found for sever_path.
render_kernel_mutation(r, idx, before, after, sever_path, score) ==
    LET before_paths == _add_kernel_to_graph(before)
        after_paths  == _add_kernel_to_graph(after)
        before_id    == FirstWithPath(before_paths, sever_path)
        after_id     == FirstWithPath(after_paths, sever_path)
    IN  [kind |-> "mutation", round |-> r, idx |-> idx,
         before |-> before, after |-> after,
         sever_path |-> sever_path, score |-> score,
         hl_before |-> Highlighted(before_paths, Some(sever_path)),
         hl_after |-> Highlighted(after_paths, Some(sever_path)),
         edge |-> IF before_id # None /\ after_id # None
                  THEN Some(<<before_id[1], after_id[1]>>) ELSE None]

\* render_kernel_chain(kernels, scores, ...)
render_kernel_chain(r, kernels, scores) ==
    [kind |-> "chain", round |-> r, kernels |-> kernels, scores |-> scores]

\* frames[0].save(gif_path, append_images=frames[1:], ...)
save_gif(r, frames) == [kind |-> "gif", round |-> r, frames |-> frames]

\* ------------------------------------------------------ visualize_log_run
_path_to_tuple(s) == IF s = T_root \/ s = <<>> THEN <<>> ELSE s

\* The steps left in the order of the log.
unsorted(steps) == steps

\* sorted(steps, key=lambda item: item["idx"]): stable, so each step goes
\* after the earlier steps of the same idx.
RECURSIVE sorted(_)
sorted(steps) ==
    IF steps = <<>> THEN <<>>
    ELSE LET x    == steps[Len(steps)]
             init == sorted(SubSeq(steps, 1, Len(steps) - 1))
             n    == Cardinality({i \in 1..Len(init) : init[i].idx <= x.idx})
         IN  SubSeq(init, 1, n) \o <<x>> \o SubSeq(init, n + 1, Len(init))

\* min(xs) and max(xs) of a non-empty list.
min(xs) == CHOOSE v \in {xs[i] : i \in 1..Len(xs)} : \A i \in 1..Len(xs) : v <= xs[i]

max(xs) == CHOOSE v \in {xs[i] : i \in 1..Len(xs)} : \A i \in 1..Len(xs) : v >= xs[i]

\* y_limits of lines 140-142, in the unit of the scores: the pad is a tenth of
\* the range, or 1.0 when the range is empty.
YLimits(all_scores) ==
    LET y_min == min(all_scores)
        y_max == max(all_scores)
        y_pad == IF y_max > y_min THEN (y_max - y_min) \div 10 ELSE 10000
    IN  <<y_min - y_pad, y_max + y_pad>>

\* The frames of lines 206-220: each mutation image above the plot of the
\* scores up to its step.
Frames(paths, scores, total_steps, limits) ==
    [i \in 1..Len(paths) |->
        [mutation |-> paths[i], scores |-> SubSeq(scores, 1, i),
         total_steps |-> total_steps, y_limits |-> limits]]

\* -------------------------------------------------------------------- Spec
\* visualize_log_run on a log file: parse_log, then Round by Round.

\* The most blocks (an Init line, or the lines of one step) a log holds.
MaxBlocks == 6

\* The blocks the logs are made of.
InitBlock == << <<"I", "n", "i", "t", ":", " ", "A">> >>

\* Step 2, accepted: the sever path L names no node of the leaf Before.
AcceptBlock ==
    << StepLine(<<"2">>, T_accept, <<"1", ".", "5">>), <<"S", "e", "v", "e", "r", " ", "p", "a", "t", "h", ":", " ", "L">>,
       <<"B", "e", "f", "o", "r", "e", ":", " ", "A">>, <<"A", "f", "t", "e", "r", " ", ":", " ", "(", "A", " ", "+", " ", "B", ")">> >>

\* Step 1, rejected, written after step 2 or before it: the sever path LL
\* names no node of either tree.
RejectBlock ==
    << StepLine(<<"1">>, T_reject, <<"-", "0", ".", "5">>), <<"S", "e", "v", "e", "r", " ", "p", "a", "t", "h", ":", " ", "L", "L">>,
       <<"B", "e", "f", "o", "r", "e", ":", " ", "(", "A", " ", "+", " ", "B", ")">>, <<"A", "f", "t", "e", "r", " ", ":", " ", "A">> >>

\* Step 1 again, accepted, severed at the root.
RootBlock ==
    << StepLine(<<"1">>, T_accept, <<"0", ".", "2", "5">>), <<"S", "e", "v", "e", "r", " ", "p", "a", "t", "h", ":", " ", "r", "o", "o", "t">>,
       <<"B", "e", "f", "o", "r", "e", ":", " ", "A">>, <<"A", "f", "t", "e", "r", " ", ":", " ", "B">> >>

\* A step cut short: no Sever path, no After.
CutBlock == << StepLine(<<"3">>, T_accept, <<"2", ".", "0">>), <<"B", "e", "f", "o", "r", "e", ":", " ", "A">> >>

Blocks == {InitBlock, AcceptBlock, RejectBlock, RootBlock, CutBlock}

RECURSIVE LogsOf(_)
LogsOf(n) ==
    IF n = 0 THEN {<<>>}
    ELSE LET S == LogsOf(n - 1) IN S \cup {l \o b : l \in S, b \in Blocks}

Init ==
    /\ pc = "start"
    /\ exc = ""
    /\ log \in LogsOf(MaxBlocks)
    /\ rounds = <<>>
    /\ current = None
    /\ step = None
    /\ ParseIdle
    /\ VizIdle

\* rounds = parse_log(log_path)
ParseLog ==
    /\ pc = "start"
    /\ LET res == parse_log(log) IN
       /\ rounds' = res.rounds
       /\ exc' = res.exc
       /\ pc' = IF res.exc = "" THEN "rounds" ELSE "raised"
    /\ UNCHANGED <<log, current, step, parseVars, vizVars>>

\* The head of the loop over the Rounds, lines 137-155.
RoundStart ==
    /\ pc = "rounds"
    /\ r_idx < Len(rounds)
    /\ LET r          == rounds[r_idx + 1]
           ss         == sorted(r.steps)
           all_scores == [i \in 1..Len(ss) |-> ss[i].log_alpha]
           init_k     == parse_kernel_expr(r.init)
           \* min() of an empty list is a ValueError
           e          == IF ss = <<>> THEN "ValueError" ELSE init_k.exc
       IN  /\ r_idx' = r_idx + 1
           /\ steps_sorted' = ss
           /\ exc' = e
           /\ IF e # ""
              THEN /\ pc' = "raised"
                   /\ y_limits' = IF ss = <<>> THEN y_limits ELSE YLimits(all_scores)
                   /\ UNCHANGED <<k, chain_kernels, chain_scores, frame_scores,
                                  mutation_paths, requests>>
              ELSE /\ pc' = "steps"
                   /\ y_limits' = YLimits(all_scores)
                   /\ chain_kernels' = <<init_k.node[1]>>
                   /\ chain_scores' = <<None>>
                   /\ requests' = Append(requests,
                          render_kernel_graph("init", r_idx + 1, None,
                                              init_k.node[1], None, None))
                   /\ frame_scores' = <<>>
                   /\ mutation_paths' = <<>>
                   /\ k' = 0
    /\ UNCHANGED <<logVars, parseVars>>

\* One pass of the loop over the steps, lines 157-196.
ProcessStep ==
    /\ pc = "steps"
    /\ k < Len(steps_sorted)
    /\ LET st         == steps_sorted[k + 1]
           sever_path == _path_to_tuple(IF st.sever_path = None THEN <<>>
                                        ELSE st.sever_path[1])
           before_k   == IF st.before = None THEN Raise("KeyError")
                         ELSE parse_kernel_expr(st.before[1])
           after_k    == IF st.after = None THEN Raise("KeyError")
                         ELSE parse_kernel_expr(st.after[1])
           e          == IF before_k.exc # "" THEN before_k.exc ELSE after_k.exc
           score      == Some(st.log_alpha)
       IN  /\ exc' = e
           /\ IF e # ""
              THEN /\ pc' = "raised"
                   /\ UNCHANGED <<k, chain_kernels, chain_scores, frame_scores,
                                  mutation_paths, requests>>
              ELSE /\ pc' = "steps"
                   /\ k' = k + 1
                   /\ requests' = requests \o
                        << render_kernel_graph("before", r_idx, Some(st.idx),
                               before_k.node[1], Some(sever_path), score),
                           render_kernel_graph("after", r_idx, Some(st.idx),
                               after_k.node[1], Some(sever_path), score),
                           render_kernel_mutation(r_idx, st.idx, before_k.node[1],
                               after_k.node[1], sever_path, score) >>
                   /\ mutation_paths' = Append(mutation_paths, <<r_idx, st.idx, st.status>>)
                   /\ frame_scores' = Append(frame_scores, st.log_alpha)
                   /\ IF Len(chain_kernels) < 5
                      THEN /\ chain_kernels' = Append(chain_kernels,
                                  IF st.status = T_accept THEN after_k.node[1]
                                  ELSE before_k.node[1])
                           /\ chain_scores' = Append(chain_scores, score)
                      ELSE UNCHANGED <<chain_kernels, chain_scores>>
    /\ UNCHANGED <<r_idx, steps_sorted, y_limits, logVars, parseVars>>

\* The end of a Round, lines 198-233: the chain and the animation.
RoundFinish ==
    /\ pc = "steps"
    /\ k = Len(steps_sorted)
    /\ LET frames == IF mutation_paths # <<>>
                     THEN Frames(mutation_paths, frame_scores,
                                 Len(steps_sorted), y_limits)
                     ELSE <<>>
       IN  requests' = requests
               \o (IF Len(chain_kernels) >= 2
                   THEN <<render_kernel_chain(r_idx, chain_kernels, chain_scores)>>
                   ELSE <<>>)
               \o (IF frames # <<>> THEN <<save_gif(r_idx, frames)>> ELSE <<>>)
    /\ pc' = "rounds"
    /\ UNCHANGED <<exc, r_idx, steps_sorted, k, y_limits, chain_kernels,
                   chain_scores, frame_scores, mutation_paths, logVars, parseVars>>

\* The loop over the Rounds is over: visualize_log_run returns.
Return ==
    /\ pc = "rounds"
    /\ r_idx = Len(rounds)
    /\ pc' = "done"
    /\ UNCHANGED <<exc, logVars, parseVars, vizVars>>

Next == ParseLog \/ RoundStart \/ ProcessStep \/ RoundFinish \/ Return

Spec == Init /\ [][Next]_vars

\* ------------------------------------------------ the claims on Spec
\* The Round in progress has ended: its pass is over, or it raised.
RoundEnded == r_idx >= 1 /\ pc \in {"rounds", "done", "raised"}

\* The Round in progress went through to the end of its pass.
RoundFinished == r_idx >= 1 /\ pc \in {"rounds", "done"}

NonDecreasing(steps) ==
    \A i \in 1..(Len(steps) - 1) : steps[i].idx <= steps[i + 1].idx

Smaller(a, b) == IF a < b THEN a ELSE b

\* The tree of an optional text: none when the text is unset or does not parse.
TreeOf(t) == IF t = None THEN None ELSE parse_kernel_expr(t[1]).node

\* The chain C7 describes for a Round.
ChainAsClaimed(r) ==
    LET ss == sorted(r.steps)
        n  == Len(ss)
    IN  /\ Len(chain_kernels) = Smaller(5, n + 1)
        /\ Len(chain_scores) = Smaller(5, n + 1)
        /\ Some(chain_kernels[1]) = TreeOf(Some(r.init))
        /\ chain_scores[1] = None
        /\ \A i \in 1..Smaller(4, n) :
              /\ Some(chain_kernels[i + 1]) =
                    TreeOf(IF ss[i].status = T_accept THEN ss[i].after
                           ELSE ss[i].before)
              /\ chain_scores[i + 1] = Some(ss[i].log_alpha)

\* A path followed from the root of a tree: L to the left child and R to the
\* right child of an operator node; a leaf has no child.
RECURSIVE Resolves(_, _)
Resolves(n, path) ==
    IF path = <<>> THEN TRUE
    ELSE IF n.op = None THEN FALSE
    ELSE IF Head(path) = "L" THEN Resolves(n.left[1], Tail(path))
    ELSE IF Head(path) = "R" THEN Resolves(n.right[1], Tail(path))
    ELSE FALSE

\* C4: a sever path that reaches a leaf before it is exhausted matches no
\* node, so no node of that snapshot is highlighted, and the mutation render
\* asks for the edge between the snapshots only when the sever path resolves
\* to a node of the tree in both.
C4_SeverPathResolution ==
    \A i \in 1..Len(requests) :
        LET q == requests[i] IN
        /\ (q.kind = "graph" /\ q.highlight_paths # None
              /\ ~Resolves(q.kernel, q.highlight_paths[1]))
            => q.highlighted = {}
        /\ q.kind = "mutation" =>
              /\ ~Resolves(q.before, q.sever_path) => q.hl_before = {}
              /\ ~Resolves(q.after, q.sever_path) => q.hl_after = {}
              /\ q.edge # None =>
                    (Resolves(q.before, q.sever_path) /\ Resolves(q.after, q.sever_path))

\* C5: visualize_log_run has no fatal error path over the Rounds parse_log
\* emits: a Round of no step and a step whose Before/After was never set are
\* processed without an exception.
C5_NoFatalError == pc = "raised" => r_idx = 0

\* C7: for a Round of n steps the chain has min(5, n+1) entries: the initial
\* kernel with no score, then for the first min(4, n) steps in ascending index
\* order the after tree of an accepted step and the before tree of a rejected
\* one, with the step's log_alpha.
C7_Chain == RoundEnded => ChainAsClaimed(rounds[r_idx])

\* The chain of C7 for the Rounds whose pass went through.
FinishedChain == RoundFinished => ChainAsClaimed(rounds[r_idx])

\* C8, as claimed: the steps of each Round parse_log emits are non-decreasing
\* in index.
C8_EmittedStepsAscending ==
    pc # "start" => \A n \in 1..Len(rounds) : NonDecreasing(rounds[n].steps)

\* C8, amended: the steps of each Round are non-decreasing in index in the
\* order visualize_log_run processes them (steps_sorted); they are the steps
\* parse_log emitted for the Round, which are in the order of the log.
C8_SortedStepsAscending ==
    (r_idx >= 1 /\ pc # "start") =>
        /\ NonDecreasing(steps_sorted)
        /\ Len(steps_sorted) = Len(rounds[r_idx].steps)
        /\ \A i \in 1..Len(steps_sorted) :
              \E j \in 1..Len(steps_sorted) : rounds[r_idx].steps[j] = steps_sorted[i]

\* C8: a Round whose Step headers are out of order in the log is processed in
\* ascending order.
C8_Witness ==
    /\ pc = "steps"
    /\ k >= 2
    /\ ~NonDecreasing(rounds[r_idx].steps)
    /\ NonDecreasing(steps_sorted)

\* What a request is, for the order of the requests: its kind, Round and step.
Shape(q) ==
    CASE q.kind = "graph" -> <<q.what, q.round, q.idx>>
      [] q.kind = "mutation" -> <<"mutation", q.round, Some(q.idx)>>
      [] q.kind = "chain" -> <<"chain", q.round, None>>
      [] q.kind = "gif" -> <<"gif", q.round, None>>

RECURSIVE StepShapes(_, _)
StepShapes(r, ss) ==
    IF ss = <<>> THEN <<>>
    ELSE << <<"before", r, Some(ss[1].idx)>>, <<"after", r, Some(ss[1].idx)>>,
            <<"mutation", r, Some(ss[1].idx)>> >> \o StepShapes(r, Tail(ss))

\* The requests C9 describes for Round number r: the chain has two entries
\* or more, and a frame exists, as soon as the Round has a step.
RoundShapes(r, rnd) ==
    << <<"init", r, None>> >> \o StepShapes(r, sorted(rnd.steps))
    \o (IF Len(rnd.steps) >= 1 THEN << <<"chain", r, None>>, <<"gif", r, None>> >>
        ELSE <<>>)

RECURSIVE RunShapes(_, _)
RunShapes(rs, n) ==
    IF n = 0 THEN <<>> ELSE RunShapes(rs, n - 1) \o RoundShapes(n, rs[n])

\* The frames of each animation: one per step, in step order, the i-th with
\* the scores of the first i steps.
FramesAsClaimed ==
    \A i \in 1..Len(requests) :
        requests[i].kind = "gif" =>
            LET ss == sorted(rounds[requests[i].round].steps)
                fr == requests[i].frames
            IN  /\ Len(fr) = Len(ss)
                /\ \A j \in 1..Len(fr) :
                      /\ fr[j].mutation[2] = ss[j].idx
                      /\ fr[j].scores = [m \in 1..j |-> ss[m].log_alpha]

LinearPass(n) ==
    /\ [i \in 1..Len(requests) |-> Shape(requests[i])] = RunShapes(rounds, n)
    /\ FramesAsClaimed

\* C9: visualize_log_run makes, Round by Round in the order of parse_log, the
\* init render, then per step in ascending index order the before, after and
\* mutation renders, then one chain request iff the chain has 2 entries or
\* more and one animation iff a frame exists, its i-th frame over the scores
\* of the first i steps; the requests of two Rounds do not interleave.
C9_LinearPass == pc \in {"done", "raised"} => LinearPass(Len(rounds))

\* The order of C9 for the runs that return.
ReturnedLinearPass == pc = "done" => LinearPass(Len(rounds))

====
